---------------------------- MODULE Spec2Model ----------------------------
(***************************************************************************)
(* A model of the embed-serial-protocol crate:                             *)
(*   - BufferedTx / BufferedRx           (src/src/serial.rs)               *)
(*   - Frame codec, recv_frame, FrameRx  (src/src/packet.rs)               *)
(*   - Frame/Packet codec, SerialConnection::send / recv_packet            *)
(*                                        (src/src/slip.rs)                *)
(* Five specifications share the module: SpecTx, SpecRx and SpecSend, one  *)
(* per subsystem, SpecCodec, which applies the codecs to one input, and    *)
(* SpecBuf, which calls the methods of BufferedRx one by one.              *)
(***************************************************************************)
EXTENDS Integers, Sequences, FiniteSets, TLC

VARIABLES
    \* ---- BufferedTx (serial.rs) ----
    txq,        \* BufferedTx.buf: the write queue
    room,       \* raw sink: bytes it accepts before it reports WouldBlock
    sinkGot,    \* raw sink: every byte it has accepted, in order
    handed,     \* every byte handed to write / write_all, in order
    txRes,      \* result of the last write_all / flush call
    oneByte,    \* TRUE while every flush so far met a raw sink with room for one byte
    txCall,     \* the last write-side call: "write", "write_all", "flush"
    \* ---- BufferedRx, recv_frame, FrameRx (serial.rs, packet.rs) ----
    src,        \* raw source: the bytes the line has not delivered yet
    rxq,        \* BufferedRx.buf: a VecDeque (ring storage)
    api,        \* the receive entry point the caller polls
    scn,        \* the input stream's make-up: garbage, frame, garbage, frame
    frames,     \* the payloads of the frames returned so far, in order
    rxLast,     \* tag of the last poll's result
    npoll,      \* polls made so far (saturates at MaxPolls)
    errSeen,    \* TRUE once a poll has reported an error
    earlyPoll,  \* TRUE once a poll ran before the whole input was buffered
    bufRes,     \* result of the last buffer() call
    \* ---- SerialConnection::send / recv_packet (slip.rs) and its peer ----
    payload,    \* send's payload argument
    convId,     \* send's id argument
    pc,         \* where send is: "loop", "wait" (in recv_packet), "ok", "err"
    ci,         \* index of the chunk the loop is at
    sres,       \* the error send returned ("none" otherwise)
    txlog,      \* the frames send handed to tx.write_all, in order
    wire,       \* frames on the way to the peer: [bytes, intact]
    peerGot,    \* the packets the peer accepted, in order
    back,       \* the peer's answers on the way back (frames)
    rxw,        \* what send's rx will return, read by read: a byte, or IoErr
    rcvd,       \* what each recv_packet call inside send returned
    wrErr,      \* TRUE once tx.write_all returned a hard error
    rdErr,      \* TRUE once a read inside recv_packet returned a hard error
    clean,      \* TRUE while nothing was lost or damaged and every answer was the Ack
    \* ---- the codecs applied to one input (packet.rs, slip.rs) ----
    cexp,       \* what the input is for: "frame" (packet.rs) or "packet" (slip.rs)
    cdata,      \* the payload
    ckind,      \* the packet kind
    cconvo,     \* the conversation id
    cop,        \* the operation applied to the input ("none" before)
    carg,       \* what else the operation was given
    cres,       \* its result
    \* ---- BufferedRx called method by method (serial.rs) ----
    pulled,     \* the bytes the raw source has delivered to the BufferedRx, in order
    eaten,      \* the bytes read() returned and drain() removed, in order
    bufOp,      \* the last method called
    bufOut      \* what it returned: bytes, or <<-1>> for None and WouldBlock

txVars == <<txq, room, sinkGot, handed, txRes, oneByte, txCall>>
rxVars == <<src, rxq, api, scn, frames, rxLast, npoll, errSeen, earlyPoll, bufRes>>

bufVars == <<pulled, eaten, bufOp, bufOut>>
sendVars == <<payload, convId, pc, ci, sres, txlog, wire, peerGot, back, rxw, rcvd,
              wrErr, rdErr, clean>>

codecVars == <<cexp, cdata, ckind, cconvo, cop, carg, cres>>

vars == <<txVars, rxVars, sendVars, codecVars, bufVars>>

(***************************************************************************)
(* Bytes and the CRC-8 (crc::CRC_8_MAXIM_DOW: reflected polynomial 0x8C,   *)
(* initial value 0, no final xor).                                         *)
(***************************************************************************)
Byte == 0..255

RECURSIVE BitXor(_, _)
BitXor(a, b) ==
    IF a = 0 THEN b
    ELSE IF b = 0 THEN a
    ELSE (((a % 2) + (b % 2)) % 2) + 2 * BitXor(a \div 2, b \div 2)

RECURSIVE CrcShift(_, _)
CrcShift(c, n) ==
    IF n = 0 THEN c
    ELSE CrcShift(IF c % 2 = 1 THEN BitXor(c \div 2, 140) ELSE c \div 2, n - 1)

CrcTable == [b \in Byte |-> CrcShift(b, 8)]

\* the checksum register c after the bytes s[lo..hi], taken in order (the
\* range is split in halves to keep the evaluation shallow)
RECURSIVE CrcRange(_, _, _, _)
CrcRange(c, s, lo, hi) ==
    IF hi < lo THEN c
    ELSE IF lo = hi THEN CrcTable[BitXor(c, s[lo])]
    ELSE LET mid  == (lo + hi) \div 2
             left == CrcRange(c, s, lo, mid)
         IN  IF left \in Byte THEN CrcRange(left, s, mid + 1, hi) ELSE left

CrcUpdate(c, s) == CrcRange(c, s, 1, Len(s))

Crc8SkipsLast(s) == CrcUpdate(0, IF s = <<>> THEN s ELSE SubSeq(s, 1, Len(s) - 1))
crc8(s) == CrcUpdate(0, s)

\* s[lo..hi] with 1-based inclusive indices; empty when hi < lo
Slice(s, lo, hi) == IF hi < lo THEN <<>> ELSE SubSeq(s, lo, hi)

Min(a, b) == IF a < b THEN a ELSE b
Max(a, b) == IF a < b THEN b ELSE a

(***************************************************************************)
(* BufferedTx (serial.rs).  The raw sink accepts `room` more bytes and     *)
(* then answers WouldBlock.                                                *)
(***************************************************************************)
MaxHanded == 4      \* bytes handed to the write side in one behaviour
MaxRoom   == 2      \* bytes the raw sink accepts in a row

\* <BufferedTx as Write>::write: push the word on the queue, always Ok
TxPush(q, word) == Append(q, word)

\* <BufferedTx as Write>::flush: loop { x = pop_front or WouldBlock; tx.write(x)? }
RECURSIVE TxFlushLoop(_, _, _)
TxFlushLoop(q, r, got) ==
    IF q = <<>> THEN [q |-> q, room |-> r, got |-> got, res |-> "WouldBlock"]
    ELSE IF r = 0
         THEN [q |-> Tail(q), room |-> r, got |-> got, res |-> "WouldBlock"]
         ELSE TxFlushLoop(Tail(q), r - 1, Append(got, Head(q)))

\* the k bytes handed next: the n-th byte handed to the queue has value n
NextData(k) == [j \in 1..k |-> Len(handed) + j]

RECURSIVE PushAll(_, _)
PushAll(q, data) ==
    IF data = <<>> THEN q ELSE PushAll(TxPush(q, Head(data)), Tail(data))

(***************************************************************************)
(* VecDeque<u8> as BufferedRx uses it (serial.rs): ring storage of `cap`   *)
(* slots, the oldest element at physical index `head`.  `items` lists the  *)
(* content oldest first.                                                   *)
(***************************************************************************)
\* VecDeque::new()
DqNew == [cap |-> 0, head |-> 0, items |-> <<>>]

DqLen(q) == Len(q.items)

\* smallest allocation the ring makes for one-byte elements
DqMinCap == 8

\* growth of a full ring (push_back on len = cap): the capacity doubles and the
\* wrapped part is moved so that the content stays in order
DqGrow(q) ==
    LET old     == q.cap
        new     == Max(2 * old, DqMinCap)
        headLen == old - q.head
        tailLen == DqLen(q) - headLen
    IN  IF q.head <= old - DqLen(q)
        THEN [q EXCEPT !.cap = new]
        ELSE IF headLen > tailLen /\ new - old >= tailLen
             THEN [q EXCEPT !.cap = new]
             ELSE [q EXCEPT !.cap = new, !.head = new - headLen]

\* VecDeque::push_back
DqPushBack(q, b) ==
    LET g == IF DqLen(q) = q.cap THEN DqGrow(q) ELSE q
    IN  [g EXCEPT !.items = Append(@, b)]

RECURSIVE DqPushAll(_, _)
DqPushAll(q, bytes) ==
    IF bytes = <<>> THEN q ELSE DqPushAll(DqPushBack(q, Head(bytes)), Tail(bytes))

DqPopNewest(q) == [q EXCEPT !.items = SubSeq(@, 1, Len(@) - 1)]

\* VecDeque::pop_front on a non-empty ring
DqPopFront(q) ==
    [q EXCEPT !.items = Tail(@), !.head = (q.head + 1) % q.cap]

\* VecDeque::drain(0..n), n <= len: a ring drained empty restarts at slot 0
DqDrainFront(q, n) ==
    IF n = DqLen(q) THEN [q EXCEPT !.items = <<>>, !.head = 0]
    ELSE IF n = 0 THEN q
    ELSE [q EXCEPT !.items = Slice(@, n + 1, Len(@)), !.head = (q.head + n) % q.cap]

\* VecDeque::as_slices().0: the part of the content stored before the ring wraps
DqFirstSlice(q) ==
    IF q.head + DqLen(q) <= q.cap THEN q.items
    ELSE Slice(q.items, 1, q.cap - q.head)

\* BufferedRx::slice
RxSlice(q) == DqFirstSlice(q)

\* BufferedRx::peek (-1 stands for None)
RxPeek(q) == IF DqLen(q) = 0 THEN -1 ELSE q.items[1]

\* BufferedRx::drain(amount)
RxDrain(q, amount) == DqDrainFront(q, amount)

\* read_amt(n): removes the n oldest bytes of the queue
ReadAmt(q, n) == DqDrainFront(q, n)

(***************************************************************************)
(* The frame codec of packet.rs.                                           *)
(***************************************************************************)
MAX_DATA_SIZE == 255
MAX_FRAME_SIZE == MAX_DATA_SIZE + 4
DELIMITER == 85     \* 0x55
END_DELIM == 170    \* 0xAA

FrameEncodeCrcOfData(body, buflen) ==
    [tag |-> "Ok", n |-> Len(body) + 4,
     bytes |-> <<85, Len(body)>> \o body \o <<CrcUpdate(0, body), 170>>]

\* <FrameDataSlice as Encode>::encode into a buffer of buflen bytes
FrameEncode(body, buflen) ==
    LET size == Min(MAX_DATA_SIZE, Len(body))
        data == Slice(body, 1, size)
    IN  IF buflen < 2
        THEN [tag |-> "panic", n |-> 0, bytes |-> <<>>]
        ELSE IF buflen < size + 4
        THEN [tag |-> "EncodeBufferTooSmall", n |-> size + 4, bytes |-> <<>>]
        ELSE [tag |-> "Ok", n |-> size + 4,
              bytes |-> <<DELIMITER, size>> \o data
                        \o <<crc8(<<size>> \o data), END_DELIM>>]

FrameErr(tag, at) == [tag |-> tag, size |-> 0, data |-> <<>>, crc |-> 0, at |-> at]

FrameDecodeStartFirst(data) ==
    IF data = <<>> \/ data[1] # DELIMITER THEN FrameErr("MissingStartDelim", 0)
    ELSE FrameErr("DecodeBufferTooSmall", 4)

FrameDecodeCrcFirst(data) ==
    IF Len(data) < 4 THEN FrameErr("DecodeBufferTooSmall", 4)
    ELSE IF data[1] # DELIMITER THEN FrameErr("MissingStartDelim", 0)
    ELSE IF Len(data) < data[2] + 4 THEN FrameErr("DecodeBufferTooSmall", data[2] + 4)
    ELSE
    LET size == data[2]
        p    == Slice(data, 3, size + 2)
        ends == {i \in 0..(size + 3) : data[i + 1] = END_DELIM}
    IN  IF data[size + 3] # crc8(<<size>> \o p)
        THEN FrameErr("CrcMismatch", crc8(<<size>> \o p))
        ELSE IF data[size + 4] # END_DELIM /\ ends # {}
        THEN FrameErr("EarlyEndDelim", CHOOSE i \in ends : \A j \in ends : j <= i)
        ELSE IF data[size + 4] # END_DELIM THEN FrameErr("MissingEndDelim", size + 3)
        ELSE [tag |-> "Ok", size |-> size, data |-> p, crc |-> data[size + 3], at |-> 0]

FrameDecodeNoEndCheck(data) ==
    IF Len(data) < 4 THEN FrameErr("DecodeBufferTooSmall", 4)
    ELSE IF data[1] # DELIMITER THEN FrameErr("MissingStartDelim", 0)
    ELSE IF Len(data) < data[2] + 4 THEN FrameErr("DecodeBufferTooSmall", data[2] + 4)
    ELSE
    LET size == data[2]
        p    == Slice(data, 3, size + 2)
        ends == {i \in 0..(size + 3) : data[i + 1] = END_DELIM}
    IN  IF data[size + 4] # END_DELIM /\ ends # {}
        THEN FrameErr("EarlyEndDelim", CHOOSE i \in ends : \A j \in ends : j <= i)
        ELSE IF data[size + 3] # crc8(<<size>> \o p)
        THEN FrameErr("CrcMismatch", crc8(<<size>> \o p))
        ELSE [tag |-> "Ok", size |-> size, data |-> p, crc |-> data[size + 3], at |-> 0]

\* <Frame as Decode>::decode; data[k] of the source is data[k + 1] here
FrameDecode(data) ==
    IF Len(data) < 4 THEN FrameErr("DecodeBufferTooSmall", 4)
    ELSE IF data[1] # DELIMITER THEN FrameErr("MissingStartDelim", 0)
    ELSE
    LET size == data[2] IN
    IF Len(data) < size + 4 THEN FrameErr("DecodeBufferTooSmall", size + 4)
    ELSE
    LET p     == Slice(data, 3, size + 2)
        ends  == {i \in 0..(size + 3) : data[i + 1] = END_DELIM}
        calc  == crc8(<<size>> \o p)
        crc   == data[size + 3]
    IN  IF data[size + 4] # END_DELIM /\ ends # {}
        THEN FrameErr("EarlyEndDelim", CHOOSE i \in ends : \A j \in ends : j <= i)
        ELSE IF crc # calc THEN FrameErr("CrcMismatch", calc)
        ELSE IF data[size + 4] # END_DELIM THEN FrameErr("MissingEndDelim", size + 3)
        ELSE [tag |-> "Ok", size |-> size, data |-> p, crc |-> crc, at |-> 0]

\* Frame::len of a decoded frame
FrameLenOffByOne(f) == Len(f.data) + 5
FrameLen(f) == Len(f.data) + 4

StructErrs == {"EarlyEndDelim", "CrcMismatch", "MissingEndDelim"}

\* bytes in front of the first DELIMITER of sl; Len(sl) when it has none
DelimAt(sl) ==
    LET at == {i \in 1..Len(sl) : sl[i] = DELIMITER}
    IN  IF at = {} THEN Len(sl) ELSE (CHOOSE i \in at : \A j \in at : i <= j) - 1

RecvFrameKeepsGarbage(q) ==
    LET d == FrameDecode(RxSlice(ReadAmt(q, DelimAt(RxSlice(q)))))
    IN  IF d.tag = "Ok"
        THEN [q |-> ReadAmt(q, FrameLen(d)), tag |-> "Frame", data |-> d.data]
        ELSE [q |-> q, tag |-> "WouldBlock", data |-> <<>>]

\* recv_frame(rx)
RecvFrame(q) ==
    LET q1 == ReadAmt(q, DelimAt(RxSlice(q)))
        d  == FrameDecode(RxSlice(q1))
    IN  IF d.tag = "Ok"
        THEN [q |-> ReadAmt(q1, FrameLen(d)), tag |-> "Frame", data |-> d.data]
        ELSE IF d.tag = "DecodeBufferTooSmall"
        THEN [q |-> q1, tag |-> "WouldBlock", data |-> <<>>]
        ELSE [q |-> q1, tag |-> d.tag, data |-> <<>>]

\* the loop that opens FrameRx::recv: until the queue's front is the DELIMITER,
\* <BufferedRx as Read>::read pulls what the raw source has (av) and pops a byte
RECURSIVE TossToDelim(_, _)
TossToDelim(q, av) ==
    IF RxPeek(q) = DELIMITER THEN [q |-> q, av |-> av, blocked |-> FALSE]
    ELSE LET q1 == DqPushAll(q, av) IN
         IF DqLen(q1) = 0 THEN [q |-> q1, av |-> <<>>, blocked |-> TRUE]
         ELSE TossToDelim(DqPopFront(q1), <<>>)

\* FrameRx::recv with av the bytes the raw source can deliver during the call;
\* `left` are those still on the raw source afterwards
FrameRxRecv(q, av) ==
    LET t == TossToDelim(q, av)
        d == FrameDecode(RxSlice(t.q))
    IN  IF t.blocked
        THEN [q |-> t.q, left |-> t.av, tag |-> "WouldBlock", data |-> <<>>]
        ELSE IF d.tag = "Ok"
        THEN [q |-> RxDrain(t.q, FrameLen(d)), left |-> t.av,
              tag |-> "Frame", data |-> d.data]
        ELSE IF d.tag \in StructErrs
        THEN \* let _ = self.rx.rx.read(): one byte of the raw source is read and dropped
             [q |-> t.q, left |-> IF t.av = <<>> THEN <<>> ELSE Tail(t.av),
              tag |-> d.tag, data |-> <<>>]
        ELSE IF d.tag = "DecodeBufferTooSmall"
        THEN [q |-> t.q, left |-> t.av, tag |-> "WouldBlock", data |-> <<>>]
        ELSE [q |-> t.q, left |-> t.av, tag |-> d.tag, data |-> <<>>]

(***************************************************************************)
(* Input streams for the receive side: garbage, a frame (valid or corrupt  *)
(* in one byte), garbage, a valid frame.                                   *)
(***************************************************************************)
MaxGarbage == 1     \* garbage bytes in front of each frame
MaxPolls   == 3     \* polls counted
MaxRaw     == 10    \* bytes the raw source of a BufferedRx called directly delivers

GarbageBytes == {0, DELIMITER}
GarbageSeqs == UNION {[1..n -> GarbageBytes] : n \in 0..MaxGarbage}
Payloads == {<<>>, <<DELIMITER>>, <<END_DELIM>>, <<1, 2>>}
LastPayloads == {<<7>>}
FrameKinds == {"valid", "badcrc", "badend", "badlen"}

ValidFrame(p) == FrameEncode(p, MAX_FRAME_SIZE).bytes

\* the frame of payload p with one byte changed: the checksum, the end
\* delimiter or the length byte
MkFrame(p, kind) ==
    LET v == ValidFrame(p)
        n == Len(v)
    IN  CASE kind = "valid"  -> v
          [] kind = "badcrc" -> [v EXCEPT ![n - 1] = BitXor(@, 1)]
          [] kind = "badend" -> [v EXCEPT ![n] = 0]
          [] kind = "badlen" -> [v EXCEPT ![2] = @ + 1]

Scenarios ==
    [g1 : GarbageSeqs, p1 : Payloads, k1 : FrameKinds, g2 : GarbageSeqs, p2 : LastPayloads]

Stream(s) == s.g1 \o MkFrame(s.p1, s.k1) \o s.g2 \o ValidFrame(s.p2)

NoDelim(g) == \A i \in 1..Len(g) : g[i] # DELIMITER

(***************************************************************************)
(* The codec of slip.rs: Frame (START, length, data, crc: no end           *)
(* delimiter) and Packet (kind, conversation id, length, data).            *)
(***************************************************************************)
START == 85                     \* 0x55
MAX_PACKET_SIZE == 255
PacketHeaderSize == 3
FrameHeaderSize == 1
MAX_PACKET_DATA_SIZE == MAX_PACKET_SIZE - PacketHeaderSize
SLIP_MAX_FRAME_SIZE == 1 + FrameHeaderSize + 255 + 1

KData == 0
KDataContinue == 1
KDataLast == 2
KAck == 4
KError == 5
KReserved == 6

\* Kind::from(u3): the fallback variant takes every other bit pattern
KindFromLowBits(b) == b % 4
KindFrom(b) == IF b \in {KData, KDataContinue, KDataLast, KAck, KError} THEN b ELSE KReserved

\* Packet::new: the header's length is data.len() as u8
PacketNew(kind, convo, data) ==
    [kind |-> kind, convo |-> convo, length |-> Len(data) % 256, data |-> data]

\* Packet::size
PacketSize(p) == PacketHeaderSize + Len(p.data)

\* <Packet as Encode>::encode into a buffer of buflen bytes
PacketEncode(p, buflen) ==
    IF buflen < PacketSize(p)
    THEN [tag |-> "EncodeBufferTooSmall", bytes |-> <<>>]
    ELSE IF p.length # Len(p.data)
    THEN [tag |-> "panic", bytes |-> <<>>]      \* copy_from_slice: lengths differ
    ELSE [tag |-> "Ok", bytes |-> <<p.kind, p.convo, p.length>> \o p.data]

\* <Packet as Decode>::decode
PacketDecode(data) ==
    IF Len(data) < PacketHeaderSize
    THEN [tag |-> "NotEnoughDataForHeader", kind |-> 0, convo |-> 0, length |-> 0, data |-> <<>>]
    ELSE IF data[1] > 7
    THEN [tag |-> "panic", kind |-> 0, convo |-> 0, length |-> 0, data |-> <<>>]
    ELSE IF Len(data) < PacketHeaderSize + data[3]
    THEN [tag |-> "DecodeBufferTooSmall", kind |-> 0, convo |-> 0, length |-> 0, data |-> <<>>]
    ELSE [tag |-> "Ok", kind |-> KindFrom(data[1]), convo |-> data[2], length |-> data[3],
          data |-> Slice(data, PacketHeaderSize + 1, PacketHeaderSize + data[3])]

\* Packet::owned / PacketOwned::new: the data is copied into [u8; MAX_PACKET_DATA_SIZE]
PacketOwned(p) ==
    IF Len(p.data) > MAX_PACKET_DATA_SIZE
    THEN [p EXCEPT !.tag = "panic"]
    ELSE p

\* Frame::new of slip.rs
SlipFrameNew(data) ==
    [length |-> Len(data) % 256, data |-> data,
     crc |-> crc8(<<Len(data) % 256>> \o data)]

\* Frame::size of slip.rs
SlipFrameSize(f) == 1 + FrameHeaderSize + f.length + 1

\* <Frame as Encode>::encode of slip.rs into a buffer of buflen bytes
SlipFrameEncode(f, buflen) ==
    IF buflen < SlipFrameSize(f)
    THEN [tag |-> "EncodeBufferTooSmall", bytes |-> <<>>]
    ELSE IF f.length # Len(f.data)
    THEN [tag |-> "panic", bytes |-> <<>>]      \* copy_from_slice: lengths differ
    ELSE [tag |-> "Ok",
          bytes |-> <<START, f.length>> \o f.data \o <<crc8(<<f.length>> \o f.data)>>]

SlipErr(tag) == [tag |-> tag, length |-> 0, data |-> <<>>, crc |-> 0]

\* <Frame as Decode>::decode of slip.rs; an index past the end of data panics
SlipFrameDecode(data) ==
    IF Len(data) < 1 THEN SlipErr("panic")
    ELSE IF data[1] # START THEN SlipErr("MissingStart")
    ELSE IF Len(data) < 2 THEN SlipErr("panic")
    ELSE
    LET length == data[2] IN
    IF Len(data) - 2 < length THEN SlipErr("DecodeBufferTooSmall")
    ELSE IF Len(data) < length + 3 THEN SlipErr("panic")
    ELSE
    LET pl == Slice(data, 3, length + 2)
        calc == crc8(<<length>> \o pl)
    IN  IF data[length + 3] # calc THEN SlipErr("CrcMismatch")
        ELSE [tag |-> "Ok", length |-> length, data |-> pl, crc |-> data[length + 3]]

(***************************************************************************)
(* SerialConnection::recv_packet.  rx is a list of read results: each      *)
(* read_exact of one byte takes the next one, a byte or IoErr (the read    *)
(* failed and left the buffer as it was).  The call blocks ("Blocked")     *)
(* until rx holds what it reads.                                           *)
(***************************************************************************)
IoErr == -1

NoPacket(tag, err, rest, saw) ==
    [tag |-> tag, err |-> err, kind |-> 0, convo |-> 0, length |-> 0, data |-> <<>>,
     rest |-> rest, sawErr |-> saw]

\* loop { rx.read_exact(&mut start); if start[0] == START { break } }
ScanStartKeepsStart(ev, saw) == [found |-> ev # <<>>, rest |-> ev, sawErr |-> saw]
RECURSIVE ScanStart(_, _)
ScanStart(ev, saw) ==
    IF ev = <<>> THEN [found |-> FALSE, rest |-> ev, sawErr |-> saw]
    ELSE IF Head(ev) = START THEN [found |-> TRUE, rest |-> Tail(ev), sawErr |-> saw]
    ELSE ScanStart(Tail(ev), saw \/ Head(ev) = IoErr)

\* for _ in 0..n { rx.read_exact(&mut b); v.push(b[0]) } on a heapless Vec of
\* MAX_PACKET_SIZE slots: a failed read leaves in b the byte of the read before
\* it (b0 at first); a push on a full v is refused, and the refusal ignored
ReadInto(ev, n, b0, v) ==
    LET got(k) == LET js == {j \in 1..k : ev[j] # IoErr}
                  IN  IF js = {} THEN b0 ELSE ev[CHOOSE j \in js : \A i \in js : i <= j]
        vals   == IF \A j \in 1..n : ev[j] # IoErr
                  THEN Slice(ev, 1, n)
                  ELSE [k \in 1..n |-> got(k)]
    IN  v \o Slice(vals, 1, Min(n, MAX_PACKET_SIZE - Len(v)))

\* what the build makes of `size + 1` on a u8 of 255: a panic (overflow checks)
\* or 0 (wrapping)
OverflowOutcomes == {"panic", "wrap"}

RecvPacket(ev, ovf) ==
    LET s == ScanStart(ev, FALSE) IN
    IF ~s.found \/ s.rest = <<>> THEN NoPacket("Blocked", "", ev, FALSE)
    ELSE
    LET h     == Head(s.rest)
        size  == IF h = IoErr THEN 0 ELSE h
        n     == IF size = 255 THEN 0 ELSE size + 1
        body  == Tail(s.rest)
    IN
    IF size = 255 /\ ovf = "panic"
    THEN NoPacket("panic", "overflow", body, s.sawErr \/ h = IoErr)
    ELSE IF Len(body) < n THEN NoPacket("Blocked", "", ev, FALSE)
    ELSE
    LET v     == ReadInto(body, n, 0, <<START, size>>)
        rest  == Slice(body, n + 1, Len(body))
        saw   == s.sawErr \/ h = IoErr \/ \E k \in 1..n : body[k] = IoErr
        f     == SlipFrameDecode(v)
        p     == PacketOwned(PacketDecode(f.data))
    IN  IF f.tag = "panic" THEN NoPacket("panic", "index", rest, saw)
        ELSE IF f.tag # "Ok" THEN NoPacket("FrameError", f.tag, rest, saw)
        ELSE IF p.tag = "panic" THEN NoPacket("panic", "packet", rest, saw)
        ELSE IF p.tag # "Ok" THEN NoPacket("PacketError", p.tag, rest, saw)
        ELSE [tag |-> "Ok", err |-> "", kind |-> p.kind, convo |-> p.convo,
              length |-> p.length, data |-> p.data, rest |-> rest, sawErr |-> saw]

(***************************************************************************)
(* SerialConnection::send.                                                 *)
(***************************************************************************)
\* let chunks = payload.len() / MAX_PACKET_DATA_SIZE
LastIndex(pl) == Len(pl) \div MAX_PACKET_DATA_SIZE

NChunksAtLeastOne(pl) ==
    Max(1, (Len(pl) + MAX_PACKET_DATA_SIZE - 1) \div MAX_PACKET_DATA_SIZE)

\* number of chunks payload.chunks(MAX_PACKET_DATA_SIZE) yields
NChunks(pl) == (Len(pl) + MAX_PACKET_DATA_SIZE - 1) \div MAX_PACKET_DATA_SIZE

ChunkOverlapping(pl, i) ==
    Slice(pl, Max(1, i * MAX_PACKET_DATA_SIZE), Min(Len(pl), (i + 1) * MAX_PACKET_DATA_SIZE))

\* the i-th chunk (from 0) of payload.chunks(MAX_PACKET_DATA_SIZE)
Chunk(pl, i) ==
    Slice(pl, i * MAX_PACKET_DATA_SIZE + 1, Min(Len(pl), (i + 1) * MAX_PACKET_DATA_SIZE))

SendKindLastByCount(i, chunks) ==
    IF i = chunks - 1 THEN KDataLast
    ELSE IF i = 0 THEN KData
    ELSE KDataContinue

\* the kind send gives chunk i
SendKind(i, chunks) ==
    IF i = chunks THEN KDataLast
    ELSE IF i = 0 THEN KData
    ELSE KDataContinue

\* the frame send builds for chunk i: Packet::new, encode, Frame::new, encode
SendFrame(pl, id, i) ==
    LET p  == PacketNew(SendKind(i, LastIndex(pl)), id, Chunk(pl, i))
        pe == PacketEncode(p, PacketSize(p))
        f  == SlipFrameNew(pe.bytes)
        fe == SlipFrameEncode(f, SlipFrameSize(f))
    IN  IF pe.tag # "Ok" THEN [tag |-> "PacketError", bytes |-> <<>>]
        ELSE IF fe.tag # "Ok" THEN [tag |-> "FrameError", bytes |-> <<>>]
        ELSE [tag |-> "Ok", bytes |-> fe.bytes]

\* send's match on the packet recv_packet returned
SendMatchAnyId(r, id) ==
    IF r.kind = KAck THEN "next" ELSE "NoAckResponse"
SendMatchAlwaysNext(r, id) == "next"
SendMatchAnyKind(r, id) ==
    IF r.kind = KAck /\ r.convo # id THEN "UnexpectedConvoId" ELSE "next"
SendMatch(r, id) ==
    IF r.kind = KAck
    THEN IF r.convo # id THEN "UnexpectedConvoId" ELSE "next"
    ELSE "NoAckResponse"

(***************************************************************************)
(* The peer and the link of the send side.                                 *)
(***************************************************************************)
MaxChunks == 3      \* the longest payload has MaxChunks full chunks

ConvIds == {4, 85}
PayloadLens ==
    {0, 1} \cup {k * MAX_PACKET_DATA_SIZE + d : k \in 1..MaxChunks, d \in {0, 1} }
PayloadOf(n) == [k \in 1..n |-> (7 * k + 3) % 256]

\* the peer decodes a frame that reached it intact with the same codec
PeerDecode(bytes) ==
    LET f == SlipFrameDecode(bytes) IN
    IF f.tag # "Ok" THEN [tag |-> f.tag, kind |-> 0, convo |-> 0, length |-> 0, data |-> <<>>]
    ELSE PacketDecode(f.data)

\* the frame of an answer packet with no data
AnswerFrame(kind, convo) ==
    LET p == PacketNew(kind, convo, <<>>)
        f == SlipFrameNew(PacketEncode(p, PacketSize(p)).bytes)
    IN  SlipFrameEncode(f, SlipFrameSize(f)).bytes

\* what a peer may answer to a frame: to one it accepted, the Ack with the
\* frame's id, an Ack with another id, or another kind; to a damaged one, an
\* Error packet
OtherId(c) == CHOOSE d \in ConvIds : d # c
Answers(accepted, convo) ==
    IF accepted
    THEN {<<KAck, convo>>, <<KAck, OtherId(convo)>>, <<KError, convo>>, <<KDataLast, convo>>}
    ELSE {<<KError, convo>>}

CorruptValues == {0, 4, 255}
InsertAt(seq, k, e) == Slice(seq, 1, k) \o <<e>> \o Slice(seq, k + 1, Len(seq))

(***************************************************************************)
(* Inputs of the codecs: every payload of up to MaxShort bytes over the    *)
(* two delimiters and 0, and long payloads around the size limits.         *)
(***************************************************************************)
MaxShort == 2

CodecBytes == {0, DELIMITER, END_DELIM}
ShortPayloads == UNION {[1..n -> CodecBytes] : n \in 0..MaxShort}
LongLens ==
    ((MAX_PACKET_DATA_SIZE - 3)..MAX_PACKET_DATA_SIZE) \cup {MAX_DATA_SIZE}
Ramp(n) == [k \in 1..n |-> k % 256]
Fill(n, b) == [k \in 1..n |-> b]
CodecPayloads ==
    ShortPayloads \cup {Ramp(n) : n \in LongLens} \cup {Fill(n, END_DELIM) : n \in LongLens}
Kinds == {KData, KDataContinue, KDataLast, KAck, KError, KReserved}
CodecIds == {0, START}

\* the payload and checksum bytes of a frame of n payload bytes that are
\* changed: all of them for a short payload, else the first, the middle and the
\* last payload byte and the checksum
CorruptPositions(n) ==
    IF n <= MaxShort THEN 1..(n + 1) ELSE {1, n \div 2, n, n + 1}

\* the values a changed byte takes: every value for a short payload, else one
\* bit flipped at either end, the delimiters, 0 and 255
FlipValues(n, old) ==
    IF n <= MaxShort THEN Byte
    ELSE {BitXor(old, 1), BitXor(old, 128), 0, 255, DELIMITER, END_DELIM}

\* the values the bytes of a frame are overwritten with before Frame::decode
DecodeChanges == {0, 1, DELIMITER, END_DELIM}

\* the destination sizes encode is given for a payload of n bytes: the smallest
\* ones, those around n + 4 and the largest frame
EncodeBufLens(n) ==
    {0, 1, 2, 3, MAX_FRAME_SIZE} \cup {Min(n, MAX_DATA_SIZE) + d : d \in 3..5}

(***************************************************************************)
(* Initial states.  Each specification runs one subsystem and leaves the   *)
(* others as constructed.                                                  *)
(***************************************************************************)
TxIdle ==
    /\ txq = <<>>
    /\ room = 0
    /\ sinkGot = <<>>
    /\ handed = <<>>
    /\ txRes = "none"
    /\ oneByte = TRUE
    /\ txCall = "none"

NoScenario == [g1 |-> <<>>, p1 |-> <<>>, k1 |-> "valid", g2 |-> <<>>, p2 |-> <<>>]

RxFresh ==
    /\ rxq = DqNew
    /\ frames = <<>>
    /\ rxLast = "none"
    /\ npoll = 0
    /\ errSeen = FALSE
    /\ earlyPoll = FALSE
    /\ bufRes = "none"

RxIdle ==
    /\ RxFresh
    /\ src = <<>>
    /\ api = "none"
    /\ scn = NoScenario

SendFresh ==
    /\ ci = 0
    /\ sres = "none"
    /\ txlog = <<>>
    /\ wire = <<>>
    /\ peerGot = <<>>
    /\ back = <<>>
    /\ rxw = <<>>
    /\ rcvd = <<>>
    /\ wrErr = FALSE
    /\ rdErr = FALSE
    /\ clean = TRUE

SendIdle ==
    /\ SendFresh
    /\ payload = <<>>
    /\ convId = 0
    /\ pc = "idle"

NoResult == [tag |-> "none", size |-> 0, kind |-> 0, convo |-> 0, data |-> <<>>]

CodecFresh ==
    /\ cop = "none"
    /\ carg = <<>>
    /\ cres = NoResult

CodecIdle ==
    /\ CodecFresh
    /\ cexp = "none"
    /\ cdata = <<>>
    /\ ckind = 0
    /\ cconvo = 0

BufIdle ==
    /\ pulled = <<>>
    /\ eaten = <<>>
    /\ bufOp = "none"
    /\ bufOut = <<>>

InitTx == TxIdle /\ RxIdle /\ SendIdle /\ CodecIdle /\ BufIdle

InitRx ==
    /\ TxIdle
    /\ RxFresh
    /\ api \in {"recv_frame", "FrameRx"}
    /\ scn \in Scenarios
    /\ src = Stream(scn)
    /\ SendIdle
    /\ CodecIdle
    /\ BufIdle

\* send(payload, id) has just been called
InitSend ==
    /\ TxIdle
    /\ RxIdle
    /\ SendFresh
    /\ payload \in {PayloadOf(n) : n \in PayloadLens}
    /\ convId \in ConvIds
    /\ pc = "loop"
    /\ CodecIdle
    /\ BufIdle

\* one input of the codecs: a payload for the frame codec of packet.rs, or a
\* kind, a conversation id and a payload for the packet codec of slip.rs
InitCodec ==
    /\ TxIdle
    /\ RxIdle
    /\ SendIdle
    /\ BufIdle
    /\ CodecFresh
    /\ cdata \in CodecPayloads
    /\ \/ cexp = "frame" /\ ckind = 0 /\ cconvo = 0
       \/ cexp = "packet" /\ ckind \in Kinds /\ cconvo \in CodecIds

\* a BufferedRx just built on a raw source that will deliver the bytes 1, 2, ..
InitBuf ==
    /\ TxIdle
    /\ RxFresh
    /\ api = "BufferedRx"
    /\ scn = NoScenario
    /\ src = [k \in 1..MaxRaw |-> k]
    /\ SendIdle
    /\ CodecIdle
    /\ BufIdle

(***************************************************************************)
(* BufferedTx: the calls and the raw sink.                                 *)
(***************************************************************************)
\* embedded_hal_nb Write::write(word)
TxWrite ==
    /\ Len(handed) < MaxHanded
    /\ LET d == NextData(1) IN
        /\ txq' = TxPush(txq, d[1])
        /\ handed' = handed \o d
    /\ txRes' = "Ok"
    /\ txCall' = "write"
    /\ UNCHANGED <<room, sinkGot, oneByte>>
    /\ UNCHANGED <<rxVars, sendVars, codecVars, bufVars>>

\* BufferedTx::write_all(data): queue every byte, then flush
TxWriteAll ==
    /\ \E k \in 0..(MaxHanded - Len(handed)) :
        LET d == NextData(k)
            r == TxFlushLoop(PushAll(txq, d), room, sinkGot)
        IN  /\ handed' = handed \o d
            /\ txq' = r.q
            /\ room' = r.room
            /\ sinkGot' = r.got
            /\ txRes' = r.res
            /\ oneByte' = (oneByte /\ room = 1)
    /\ txCall' = "write_all"
    /\ UNCHANGED <<rxVars, sendVars, codecVars, bufVars>>

\* embedded_hal_nb Write::flush
TxFlush ==
    /\ LET r == TxFlushLoop(txq, room, sinkGot) IN
        /\ txq' = r.q
        /\ room' = r.room
        /\ sinkGot' = r.got
        /\ txRes' = r.res
        /\ oneByte' = (oneByte /\ room = 1)
    /\ txCall' = "flush"
    /\ UNCHANGED handed
    /\ UNCHANGED <<rxVars, sendVars, codecVars, bufVars>>

\* the raw sink's hardware drains: it can take n bytes again
SinkReady ==
    /\ \E n \in 1..MaxRoom :
        /\ room # n
        /\ room' = n
    /\ UNCHANGED <<txq, sinkGot, handed, txRes, oneByte, txCall>>
    /\ UNCHANGED <<rxVars, sendVars, codecVars, bufVars>>

NextTx == TxWrite \/ TxWriteAll \/ TxFlush \/ SinkReady

SpecTx == InitTx /\ [][NextTx]_vars

(***************************************************************************)
(* The receive side: buffer() and the two poll entry points.               *)
(***************************************************************************)
Polled(tag, data) ==
    /\ rxLast' = tag
    /\ frames' = IF tag = "Frame" THEN Append(frames, data) ELSE frames
    /\ npoll' = Min(npoll + 1, MaxPolls)
    /\ errSeen' = (errSeen \/ tag \notin {"Frame", "WouldBlock"})
    /\ earlyPoll' = (earlyPoll \/ src # <<>>)

\* the result of buffer(): `self.rx.read()?` returns whatever ended the loop, the
\* raw source's WouldBlock or its hard error
BufferResult(stop) == stop

\* BufferedRx::buffer / FrameRx::buffer: the raw source delivers its next k
\* bytes and then answers WouldBlock
RxBuffer ==
    /\ \E k \in {Min(1, Len(src)), Len(src)} \ {0} :
        /\ rxq' = DqPushAll(rxq, Slice(src, 1, k))
        /\ src' = Slice(src, k + 1, Len(src))
    /\ bufRes' = BufferResult("WouldBlock")
    /\ UNCHANGED <<api, scn, frames, rxLast, npoll, errSeen, earlyPoll>>
    /\ UNCHANGED <<txVars, sendVars, codecVars, bufVars>>

\* a call of recv_frame(rx)
RecvFrameCall ==
    /\ api = "recv_frame"
    /\ LET r == RecvFrame(rxq) IN
        /\ rxq' = r.q
        /\ Polled(r.tag, r.data)
    /\ UNCHANGED <<src, api, scn, bufRes>>
    /\ UNCHANGED <<txVars, sendVars, codecVars, bufVars>>

\* a call of FrameRx::recv while the raw source can deliver its next k bytes
FrameRxRecvCall ==
    /\ api = "FrameRx"
    /\ \E k \in {0, Min(1, Len(src)), Len(src)} :
        LET r == FrameRxRecv(rxq, Slice(src, 1, k)) IN
        /\ rxq' = r.q
        /\ src' = r.left \o Slice(src, k + 1, Len(src))
        /\ Polled(r.tag, r.data)
    /\ UNCHANGED <<api, scn, bufRes>>
    /\ UNCHANGED <<txVars, sendVars, codecVars, bufVars>>

NextRx == RxBuffer \/ RecvFrameCall \/ FrameRxRecvCall

SpecRx == InitRx /\ [][NextRx]_vars

(***************************************************************************)
(* BufferedRx called method by method.                                     *)
(***************************************************************************)
\* what a method call leaves alone
BufCalled(op, out) ==
    /\ bufOp' = op
    /\ bufOut' = out
    /\ UNCHANGED <<api, scn, frames, rxLast, npoll, errSeen, earlyPoll>>
    /\ UNCHANGED <<txVars, sendVars, codecVars>>

\* BufferedRx::buffer: the raw source delivers its next k bytes and then
\* answers WouldBlock, or fails with a hard error
BufBuffer ==
    /\ api = "BufferedRx"
    /\ \E k \in 1..Min(3, Len(src)) :
        /\ rxq' = DqPushAll(rxq, Slice(src, 1, k))
        /\ src' = Slice(src, k + 1, Len(src))
        /\ pulled' = pulled \o Slice(src, 1, k)
    /\ \E stop \in {"WouldBlock", "HardError"} : bufRes' = BufferResult(stop)
    /\ BufCalled("buffer", <<>>)
    /\ UNCHANGED eaten

\* <BufferedRx as Read>::read: everything the raw source has (its next k bytes)
\* is queued, then the front of the queue is popped and returned
BufRead ==
    /\ api = "BufferedRx"
    /\ \E k \in 0..Min(1, Len(src)) :
        LET q1 == DqPushAll(rxq, Slice(src, 1, k)) IN
        /\ src' = Slice(src, k + 1, Len(src))
        /\ pulled' = pulled \o Slice(src, 1, k)
        /\ IF DqLen(q1) = 0
           THEN /\ rxq' = q1
                /\ eaten' = eaten
                /\ BufCalled("read", <<-1>>)
           ELSE /\ rxq' = DqPopFront(q1)
                /\ eaten' = Append(eaten, RxPeek(q1))
                /\ BufCalled("read", <<RxPeek(q1)>>)
    /\ UNCHANGED bufRes

\* BufferedRx::peek
BufPeek ==
    /\ api = "BufferedRx"
    /\ BufCalled("peek", <<RxPeek(rxq)>>)
    /\ UNCHANGED <<src, rxq, bufRes, pulled, eaten>>

\* BufferedRx::slice
BufSlice ==
    /\ api = "BufferedRx"
    /\ BufCalled("slice", RxSlice(rxq))
    /\ UNCHANGED <<src, rxq, bufRes, pulled, eaten>>

\* BufferedRx::drain(amount), amount within the queue: the Drain it returns
\* yields the bytes it removes
BufDrain ==
    /\ api = "BufferedRx"
    /\ \E amount \in 1..DqLen(rxq) :
        /\ rxq' = RxDrain(rxq, amount)
        /\ eaten' = eaten \o Slice(rxq.items, 1, amount)
        /\ BufCalled("drain", Slice(rxq.items, 1, amount))
    /\ UNCHANGED <<src, bufRes, pulled>>

NextBuf == BufBuffer \/ BufRead \/ BufPeek \/ BufSlice \/ BufDrain

SpecBuf == InitBuf /\ [][NextBuf]_vars

(***************************************************************************)
(* SerialConnection::send, step by step, with its peer and link.           *)
(***************************************************************************)
\* the loop body up to and including `let _ = self.tx.write_all(..)`: the frame
\* of chunk ci is built and handed to the transport, whose result is dropped.
\* A write that fails leaves at most a damaged frame on the line.
SendChunk ==
    /\ pc = "loop"
    /\ ci < NChunks(payload)
    /\ LET f == SendFrame(payload, convId, ci) IN
        IF f.tag # "Ok"
        THEN /\ pc' = "err"
             /\ sres' = f.tag
             /\ UNCHANGED <<txlog, wire, wrErr, clean>>
        ELSE \E w \in {"Ok", "Err"} :
             /\ pc' = "wait"
             /\ txlog' = Append(txlog, f.bytes)
             /\ wire' = Append(wire, [bytes |-> f.bytes, intact |-> w = "Ok"])
             /\ wrErr' = (wrErr \/ w = "Err")
             /\ clean' = (clean /\ w = "Ok")
             /\ UNCHANGED sres
    /\ UNCHANGED <<payload, convId, ci, peerGot, back, rxw, rcvd, rdErr>>
    /\ UNCHANGED <<txVars, rxVars, codecVars, bufVars>>

\* recv_packet()? and the match on its packet
AwaitAck ==
    /\ pc = "wait"
    /\ \E ovf \in OverflowOutcomes :
        LET r == RecvPacket(rxw, ovf) IN
        /\ r.tag # "Blocked"
        /\ rxw' = r.rest
        /\ rdErr' = (rdErr \/ r.sawErr)
        /\ rcvd' = Append(rcvd, [tag |-> r.tag, kind |-> r.kind, convo |-> r.convo])
        /\ IF r.tag # "Ok"
           THEN pc' = "err" /\ sres' = r.tag /\ ci' = ci
           ELSE LET m == SendMatch(r, convId) IN
                IF m = "next"
                THEN pc' = "loop" /\ sres' = sres /\ ci' = ci + 1
                ELSE pc' = "err" /\ sres' = m /\ ci' = ci
    /\ UNCHANGED <<payload, convId, txlog, wire, peerGot, back, wrErr, clean>>
    /\ UNCHANGED <<txVars, rxVars, codecVars, bufVars>>

\* the loop is over: Ok(())
SendReturn ==
    /\ pc = "loop"
    /\ ci = NChunks(payload)
    /\ pc' = "ok"
    /\ UNCHANGED <<payload, convId, ci, sres, txlog, wire, peerGot, back, rxw, rcvd,
                   wrErr, rdErr, clean>>
    /\ UNCHANGED <<txVars, rxVars, codecVars, bufVars>>

\* the line loses the frame on its way to the peer
LinkLose ==
    /\ wire # <<>>
    /\ wire' = Tail(wire)
    /\ clean' = FALSE
    /\ UNCHANGED <<payload, convId, pc, ci, sres, txlog, peerGot, back, rxw, rcvd,
                   wrErr, rdErr>>
    /\ UNCHANGED <<txVars, rxVars, codecVars, bufVars>>

\* the line damages the frame on its way to the peer
LinkDamage ==
    /\ wire # <<>>
    /\ Head(wire).intact
    /\ wire' = [wire EXCEPT ![1].intact = FALSE]
    /\ clean' = FALSE
    /\ UNCHANGED <<payload, convId, pc, ci, sres, txlog, peerGot, back, rxw, rcvd,
                   wrErr, rdErr>>
    /\ UNCHANGED <<txVars, rxVars, codecVars, bufVars>>

\* the peer takes the frame, keeps its packet if it decodes, and answers
PeerAnswer ==
    /\ wire # <<>>
    /\ LET m   == Head(wire)
           d   == PeerDecode(m.bytes)
           acc == m.intact /\ d.tag = "Ok"
           c   == IF acc THEN d.convo ELSE convId
       IN  /\ peerGot' = IF acc
                         THEN Append(peerGot, [kind |-> d.kind, convo |-> d.convo,
                                               data |-> d.data])
                         ELSE peerGot
           /\ \E a \in Answers(acc, c) :
                /\ back' = Append(back, AnswerFrame(a[1], a[2]))
                /\ clean' = (clean /\ acc /\ a = <<KAck, c>>)
    /\ wire' = Tail(wire)
    /\ UNCHANGED <<payload, convId, pc, ci, sres, txlog, rxw, rcvd, wrErr, rdErr>>
    /\ UNCHANGED <<txVars, rxVars, codecVars, bufVars>>

\* the answer reaches send's rx as it was sent
BackDeliver ==
    /\ back # <<>>
    /\ rxw' = rxw \o Head(back)
    /\ back' = Tail(back)
    /\ UNCHANGED <<payload, convId, pc, ci, sres, txlog, wire, peerGot, rcvd,
                   wrErr, rdErr, clean>>
    /\ UNCHANGED <<txVars, rxVars, codecVars, bufVars>>

\* the line loses the answer
BackLose ==
    /\ back # <<>>
    /\ back' = Tail(back)
    /\ clean' = FALSE
    /\ UNCHANGED <<payload, convId, pc, ci, sres, txlog, wire, peerGot, rxw, rcvd,
                   wrErr, rdErr>>
    /\ UNCHANGED <<txVars, rxVars, codecVars, bufVars>>

\* the answer reaches send's rx with one byte changed
BackCorrupt ==
    /\ back # <<>>
    /\ \E k \in 1..Len(Head(back)), v \in CorruptValues :
        /\ Head(back)[k] # v
        /\ rxw' = rxw \o [Head(back) EXCEPT ![k] = v]
    /\ back' = Tail(back)
    /\ clean' = FALSE
    /\ UNCHANGED <<payload, convId, pc, ci, sres, txlog, wire, peerGot, rcvd,
                   wrErr, rdErr>>
    /\ UNCHANGED <<txVars, rxVars, codecVars, bufVars>>

\* one read of send's rx fails with a hard error while the answer comes in
BackReadError ==
    /\ back # <<>>
    /\ \E k \in 0..Len(Head(back)) :
        rxw' = rxw \o InsertAt(Head(back), k, IoErr)
    /\ back' = Tail(back)
    /\ clean' = FALSE
    /\ UNCHANGED <<payload, convId, pc, ci, sres, txlog, wire, peerGot, rcvd,
                   wrErr, rdErr>>
    /\ UNCHANGED <<txVars, rxVars, codecVars, bufVars>>

\* the guards of the steps of a run in which nothing goes wrong: send can write
\* or return, the peer has a frame to answer, its answer is on the way, or
\* recv_packet has what it reads
CanStep ==
    \/ pc = "loop" /\ ci <= NChunks(payload)
    \/ wire # <<>>
    \/ back # <<>>
    \/ pc = "wait" /\ \E ovf \in OverflowOutcomes : RecvPacket(rxw, ovf).tag # "Blocked"

NextSend ==
    \/ SendChunk \/ AwaitAck \/ SendReturn
    \/ LinkLose \/ LinkDamage \/ PeerAnswer
    \/ BackDeliver \/ BackLose \/ BackCorrupt \/ BackReadError

SpecSend == InitSend /\ [][NextSend]_vars

(***************************************************************************)
(* The codecs applied to one input.                                        *)
(***************************************************************************)
FrameResult(d) ==
    [tag |-> d.tag, size |-> d.size, kind |-> 0, convo |-> 0, data |-> d.data]

PacketResult(t, p) ==
    [tag |-> t, size |-> p.length, kind |-> p.kind, convo |-> p.convo, data |-> p.data]

\* Frame::decode of the bytes FrameDataSlice::encode wrote for the payload
FrameRoundTrip ==
    /\ cop = "none" /\ cexp = "frame"
    /\ LET e == FrameEncode(cdata, MAX_FRAME_SIZE) IN
        /\ cres' = FrameResult(FrameDecode(SubSeq(e.bytes, 1, e.n)))
        /\ carg' = <<e.n>>
    /\ cop' = "FrameRoundTrip"
    /\ UNCHANGED <<cexp, cdata, ckind, cconvo>>
    /\ UNCHANGED <<txVars, rxVars, sendVars, bufVars>>

\* Frame::decode of an encoded frame with payload or checksum byte k set to v
FrameCorrupt ==
    /\ cop = "none" /\ cexp = "frame"
    /\ LET f == ValidFrame(cdata) IN
        \E k \in CorruptPositions(Len(cdata)) :
            \E v \in FlipValues(Len(cdata), f[2 + k]) :
                /\ f[2 + k] # v
                /\ cres' = FrameResult(FrameDecode([f EXCEPT ![2 + k] = v]))
                /\ carg' = <<k, v>>
    /\ cop' = "FrameCorrupt"
    /\ UNCHANGED <<cexp, cdata, ckind, cconvo>>
    /\ UNCHANGED <<txVars, rxVars, sendVars, bufVars>>

\* Frame::decode of the first n bytes of an encoded frame, n short of its length
FramePrefix ==
    /\ cop = "none" /\ cexp = "frame"
    /\ LET f == ValidFrame(cdata) IN
        \E n \in 0..(Len(f) - 1) :
            /\ cres' = FrameResult(FrameDecode(Slice(f, 1, n)))
            /\ carg' = <<n, Len(f)>>
    /\ cop' = "FramePrefix"
    /\ UNCHANGED <<cexp, cdata, ckind, cconvo>>
    /\ UNCHANGED <<txVars, rxVars, sendVars, bufVars>>

\* Packet::decode of the bytes Packet::encode wrote for Packet::new(kind, id, data)
PacketRoundTrip ==
    /\ cop = "none" /\ cexp = "packet"
    /\ LET p == PacketNew(ckind, cconvo, cdata)
           e == PacketEncode(p, PacketSize(p))
       IN  /\ cres' = IF e.tag # "Ok" THEN [NoResult EXCEPT !.tag = e.tag]
                      ELSE LET d == PacketDecode(e.bytes) IN PacketResult(d.tag, d)
           /\ carg' = <<PacketSize(p)>>
    /\ cop' = "PacketRoundTrip"
    /\ UNCHANGED <<cexp, cdata, ckind, cconvo>>
    /\ UNCHANGED <<txVars, rxVars, sendVars, bufVars>>

\* recv_packet reading the frame that send writes for a chunk (kind, id, data)
RecvSent ==
    /\ cop = "none" /\ cexp = "packet"
    /\ Len(cdata) <= MAX_PACKET_DATA_SIZE
    /\ LET p  == PacketNew(ckind, cconvo, cdata)
           f  == SlipFrameNew(PacketEncode(p, PacketSize(p)).bytes)
           fe == SlipFrameEncode(f, SlipFrameSize(f))
       IN  \E ovf \in OverflowOutcomes :
           LET r == RecvPacket(fe.bytes, ovf) IN
           /\ cres' = PacketResult(r.tag, r)
           /\ carg' = <<ovf, r.err>>
    /\ cop' = "RecvSent"
    /\ UNCHANGED <<cexp, cdata, ckind, cconvo>>
    /\ UNCHANGED <<txVars, rxVars, sendVars, bufVars>>

\* Frame::decode of the first n bytes of an encoded frame in which bytes i and j,
\* any of its bytes, were overwritten; carg keeps the input, the crc field of
\* the result and the position an error names
FrameDecodeAny ==
    /\ cop = "none" /\ cexp = "frame"
    /\ Len(cdata) <= MaxShort
    /\ LET f == ValidFrame(cdata) IN
        \E i \in 1..Len(f), a, b \in DecodeChanges, n \in 0..Len(f) :
            \E j \in i..Len(f) :
            LET input == Slice([f EXCEPT ![i] = a, ![j] = b], 1, n)
                d     == FrameDecode(input)
            IN  /\ cres' = FrameResult(d)
                /\ carg' = <<input, d.crc, d.at>>
    /\ cop' = "FrameDecodeAny"
    /\ UNCHANGED <<cexp, cdata, ckind, cconvo>>
    /\ UNCHANGED <<txVars, rxVars, sendVars, bufVars>>

\* FrameDataSlice::encode of the payload into a destination of buflen bytes;
\* cres.size is the byte count of the result (written, or expected)
FrameEncodeInto ==
    /\ cop = "none" /\ cexp = "frame"
    /\ \E buflen \in EncodeBufLens(Len(cdata)) :
        LET e == FrameEncode(cdata, buflen) IN
        /\ cres' = [NoResult EXCEPT !.tag = e.tag, !.size = e.n]
        /\ carg' = <<buflen>>
    /\ cop' = "FrameEncodeInto"
    /\ UNCHANGED <<cexp, cdata, ckind, cconvo>>
    /\ UNCHANGED <<txVars, rxVars, sendVars, bufVars>>

\* Frame::decode of slip.rs on the first n bytes of the frame send builds for
\* the packet (kind, id, data), byte k overwritten when the frame is whole;
\* carg keeps the input
SlipDecodeAny ==
    /\ cop = "none" /\ cexp = "packet"
    /\ Len(cdata) <= MaxShort
    /\ LET p == PacketNew(ckind, cconvo, cdata)
           g == SlipFrameNew(PacketEncode(p, PacketSize(p)).bytes)
           f == SlipFrameEncode(g, SlipFrameSize(g)).bytes
       IN  \E input \in {Slice(f, 1, n) : n \in 0..(Len(f) - 1)}
                        \cup {[f EXCEPT ![k] = v] : k \in 1..Len(f), v \in DecodeChanges} :
            LET d == SlipFrameDecode(input)
            IN  /\ cres' = [NoResult EXCEPT !.tag = d.tag, !.size = d.length, !.data = d.data]
                /\ carg' = <<input>>
    /\ cop' = "SlipDecodeAny"
    /\ UNCHANGED <<cexp, cdata, ckind, cconvo>>
    /\ UNCHANGED <<txVars, rxVars, sendVars, bufVars>>

NextCodec ==
    \/ FrameRoundTrip \/ FrameCorrupt \/ FramePrefix \/ PacketRoundTrip \/ RecvSent
    \/ FrameDecodeAny \/ FrameEncodeInto \/ SlipDecodeAny

SpecCodec == InitCodec /\ [][NextCodec]_vars

(***************************************************************************)
(* Claims.                                                                 *)
(***************************************************************************)
\* what send wrote, decoded: the packet of the j-th frame handed to the transport
SentPacket(j) == PeerDecode(txlog[j])

TxKinds == [j \in 1..Len(txlog) |-> SentPacket(j).kind]

RECURSIVE ConcatData(_)
ConcatData(ps) == IF ps = <<>> THEN <<>> ELSE Head(ps).data \o ConcatData(Tail(ps))

GoodAck(r) == r.tag = "Ok" /\ r.kind = KAck /\ r.convo = convId
BadAnswer(r) == r.tag = "Ok" /\ (r.kind # KAck \/ r.convo # convId)
AcksIn(rs) == Cardinality({k \in 1..Len(rs) : GoodAck(rs[k])})

\* C1: over a link that may lose or damage frames and answers, with a peer that
\* answers the frames it receives, whenever send has returned success the peer
\* has accepted one packet per chunk and their data, in order, is the payload:
\* no chunk duplicated, none dropped.
C1_PeerGotEveryChunkOnce ==
    pc = "ok" =>
        /\ Len(peerGot) = NChunks(payload)
        /\ ConcatData(peerGot) = payload
        /\ \A j \in 1..Len(peerGot) : peerGot[j].convo = convId

\* C1 witness: a payload of several chunks was sent with success although the
\* link misbehaved on the way.
C1_Witness == pc = "ok" /\ NChunks(payload) >= 2 /\ ~clean /\ Len(peerGot) >= 2

\* C2: while the peer answers every chunk with the Ack of the same conversation
\* id (and nothing is lost or damaged), send reports no error, is never stuck,
\* writes the frames of the chunks in chunk order, one each, and has written
\* exactly one frame per chunk when it returns success.
C2_AckedRunSucceeds ==
    clean =>
        /\ pc # "err"
        /\ Len(txlog) <= NChunks(payload)
        /\ \A j \in 1..Len(txlog) :
            /\ SentPacket(j).tag = "Ok"
            /\ SentPacket(j).convo = convId
            /\ SentPacket(j).data =
                 Slice(payload, (j - 1) * MAX_PACKET_DATA_SIZE + 1,
                       Min(Len(payload), j * MAX_PACKET_DATA_SIZE))
        /\ pc = "ok" => Len(txlog) = NChunks(payload)
        /\ pc \in {"loop", "wait"} => CanStep

\* C2 witness: three chunks were written and acknowledged and send returned success.
C2_Witness == clean /\ pc = "ok" /\ Len(txlog) = 3

\* C3: when the packet received while waiting for the acknowledgment of chunk i
\* is not an Ack, or is an Ack with another conversation id, send has returned
\* NoAckResponse resp. UnexpectedConvoId, that packet is the last one it read,
\* and the frames written are those of chunks 0..i only.
C3_BadAnswerStopsSend ==
    \A k \in 1..Len(rcvd) :
        BadAnswer(rcvd[k]) =>
            /\ k = Len(rcvd)
            /\ pc = "err"
            /\ sres = IF rcvd[k].kind # KAck THEN "NoAckResponse" ELSE "UnexpectedConvoId"
            /\ ci = k - 1
            /\ Len(txlog) = k

\* C3 witness: the second of three chunks was answered with an Ack of another
\* conversation id.
C3_Witness ==
    /\ NChunks(payload) = 3
    /\ Len(rcvd) = 2 /\ BadAnswer(rcvd[2]) /\ rcvd[2].kind = KAck
    /\ sres = "UnexpectedConvoId"

\* C4: at most one chunk is unacknowledged: the frames written never outnumber
\* the matching Acks received by more than one, an Ack is counted only after
\* its frame was written, and when send has returned success every packet it
\* read was a matching Ack, one per chunk.
C4_OneChunkInFlight ==
    /\ Len(txlog) <= AcksIn(rcvd) + 1
    /\ AcksIn(rcvd) <= Len(txlog)
    /\ pc = "ok" => (AcksIn(rcvd) = NChunks(payload) /\ Len(rcvd) = NChunks(payload))

\* C4 witness: the third chunk is in flight after two matching Acks.
C4_Witness == pc = "wait" /\ Len(txlog) = 3 /\ AcksIn(rcvd) = 2

\* C5: the bytes the raw sink accepted followed by the bytes still queued are
\* exactly the bytes handed to write / write_all, in order (nothing lost,
\* nothing duplicated), whatever the raw sink's WouldBlock pattern.
C5_NoByteLostOrDuplicated == sinkGot \o txq = handed

\* C6: with a raw sink that takes one byte and then answers WouldBlock, once
\* repeated flush calls have emptied the write queue the sink has received the
\* whole queued write, every byte once and in order.
C6_OneByteSinkTransmitsAll ==
    (oneByte /\ txRes # "none" /\ txq = <<>>) => sinkGot = handed

\* C7 (amended): when a freshly constructed BufferedRx has buffered the whole
\* input <garbage><valid frame A><garbage><valid frame B> before the first poll
\* and the garbage holds no start delimiter, successive recv_frame calls return
\* A, then B, and nothing else: no error is reported, the first poll yields A,
\* the second yields B, and no frame is returned twice.
C7Scene == api = "recv_frame" /\ scn.k1 = "valid" /\ ~earlyPoll

C7Outcome ==
    /\ ~errSeen
    /\ \/ frames = <<>>
       \/ frames = <<scn.p1>>
       \/ frames = <<scn.p1, scn.p2>>
    /\ npoll >= 1 => Len(frames) >= 1
    /\ npoll >= 2 => frames = <<scn.p1, scn.p2>>

C8Plain ==
    /\ scn.k1 # "valid"
    /\ ~earlyPoll
    /\ NoDelim(scn.g1) /\ NoDelim(scn.g2)
    /\ NoDelim(Tail(MkFrame(scn.p1, scn.k1)))

C8_RecoversAfterError ==
    (C8Plain /\ errSeen /\ npoll >= 3) => (frames # <<>> /\ frames[Len(frames)] = scn.p2)

\* C9: send of a payload of 3 * MAX_PACKET_DATA_SIZE bytes, every chunk
\* acknowledged, has emitted exactly three packets, of kinds Data,
\* DataContinue, DataLast in that order.
C9_ThreeFullChunksKinds ==
    (Len(payload) = 3 * MAX_PACKET_DATA_SIZE /\ clean /\ pc = "ok") =>
        TxKinds = <<KData, KDataContinue, KDataLast>>

\* C10: once the transport has returned a hard error on a write in send or on
\* a read in recv_packet, the call has returned an error: it neither goes on
\* waiting, nor retries the read, nor goes on with the bytes of earlier reads.
C10_TransportErrorIsFatal == (wrErr \/ rdErr) => pc = "err"

\* the packet bytes send encodes for the j-th frame it writes
SentPacketBytes(j) ==
    LET p == PacketNew(SendKind(j - 1, LastIndex(payload)), convId, Chunk(payload, j - 1))
    IN  PacketEncode(p, PacketSize(p)).bytes

\* C11: every frame send wrote has the frame wire format of the frame codec:
\* its size is the packet's size + 4, and Frame::decode of packet.rs applied to
\* it returns the packet bytes of the chunk.
C11_SentFramesDecodeWithFrameCodec ==
    \A j \in 1..Len(txlog) :
        /\ Len(txlog[j]) = Len(SentPacketBytes(j)) + 4
        /\ FrameDecode(txlog[j]).tag = "Ok"
        /\ FrameDecode(txlog[j]).data = SentPacketBytes(j)

\* C12: recv_packet reading the frame send writes for a chunk of up to
\* MAX_PACKET_DATA_SIZE bytes returns the packet: same kind, conversation id
\* and payload, with no overflow of the 8-bit length or of the receive buffer.
C12_RecvReturnsSentPacket ==
    cop = "RecvSent" =>
        /\ cres.tag = "Ok"
        /\ cres.kind = ckind
        /\ cres.convo = cconvo
        /\ cres.data = cdata

\* C13: Frame::decode of the encoding of a payload of 0..255 bytes, whatever
\* its bytes, returns a frame whose size is the payload's length and whose data
\* is the payload.
C13_FrameRoundTrip ==
    cop = "FrameRoundTrip" =>
        /\ cres.tag = "Ok"
        /\ cres.size = Len(cdata)
        /\ cres.data = cdata

\* C13 witness: a payload of MAX_DATA_SIZE bytes holding both delimiters went
\* through encode and decode.
C13_Witness ==
    /\ cop = "FrameRoundTrip"
    /\ Len(cdata) = MAX_DATA_SIZE
    /\ \E i, j \in 1..Len(cdata) : cdata[i] = DELIMITER /\ cdata[j] = END_DELIM
    /\ cres.tag = "Ok"

\* C14: Packet::decode of the encoding of a packet of any kind, conversation id
\* and payload of 0..255 bytes returns the same kind, conversation id, length
\* and payload.
C14_PacketRoundTrip ==
    cop = "PacketRoundTrip" =>
        /\ cres.tag = "Ok"
        /\ cres.kind = ckind
        /\ cres.convo = cconvo
        /\ cres.size = Len(cdata)
        /\ cres.data = cdata

\* C14 witness: a Reserved packet of 255 payload bytes went through encode and
\* decode.
C14_Witness ==
    /\ cop = "PacketRoundTrip"
    /\ ckind = KReserved /\ cconvo = START
    /\ Len(cdata) = 255
    /\ cres.tag = "Ok"

\* C15: Frame::decode of an encoded frame in which one byte of the payload or
\* the checksum was changed (length byte and delimiters as encoded) returns
\* CrcMismatch, never a frame.
C15_SingleByteChangeIsCrcMismatch ==
    cop = "FrameCorrupt" => cres.tag = "CrcMismatch"

\* C15 witness: the changed byte is a payload byte that became the end
\* delimiter, in a payload of several bytes.
C15_Witness ==
    /\ cop = "FrameCorrupt"
    /\ Len(cdata) >= 2 /\ carg[1] <= Len(cdata) /\ carg[2] = END_DELIM
    /\ cres.tag = "CrcMismatch"

\* C16: Frame::decode of a strict prefix of an encoded frame, of any length
\* from 0 to one byte short of the frame, returns DecodeBufferTooSmall.
C16_PrefixNeedsMoreData ==
    cop = "FramePrefix" => cres.tag = "DecodeBufferTooSmall"

\* C16 witness: the prefix is one byte short of a frame of several payload bytes.
C16_Witness ==
    /\ cop = "FramePrefix"
    /\ Len(cdata) >= 2 /\ carg[1] = carg[2] - 1
    /\ cres.tag = "DecodeBufferTooSmall"

\* C17: buffer() returns the raw source's hard error, and swallows its
\* would-block: when the source merely has no more data, buffer() reports
\* completion, not would-block.
C17_BufferSwallowsWouldBlock == bufRes \in {"none", "Ok", "HardError"}

\* C18: flush() writes queued bytes as far as the raw sink allows; it reports
\* would-block exactly when the write queue is non-empty afterward, and
\* completion when the queue has been drained completely.
C18_FlushWouldBlockIffQueueNonEmpty ==
    txCall = "flush" =>
        /\ txRes = "WouldBlock" <=> txq # <<>>
        /\ txq = <<>> => txRes = "Ok"

\* C19: when recv_frame's decode attempt fails with EarlyEndDelim, CrcMismatch
\* or MissingEndDelim, the call takes the start delimiter the scan stopped at
\* off the queue and nothing behind it: afterwards the queue holds exactly the
\* bytes that followed that delimiter, and the error is returned.
C19_RecvFrameErrorConsumesDelimiter ==
    [][(RecvFrameCall /\ rxLast' \in StructErrs) =>
            LET d == DelimAt(rxq.items)
            IN  rxq'.items = Slice(rxq.items, d + 2, Len(rxq.items))]_vars

\* C20: when FrameRx::recv fails with EarlyEndDelim, CrcMismatch or
\* MissingEndDelim, the bytes tossed in front of the frame delimiter and that
\* delimiter are the only bytes gone: the queue followed by what the raw
\* transport still holds is exactly what followed the delimiter, so no byte of
\* the raw transport is discarded.
C20_FrameRxErrorPopsDelimiterOnly ==
    [][(FrameRxRecvCall /\ rxLast' \in StructErrs) =>
            LET all == rxq.items \o src
                d   == DelimAt(all)
            IN  rxq'.items \o src' = Slice(all, d + 2, Len(all))]_vars

\* C21: when recv_frame finds a start delimiter followed by fewer bytes than
\* the frame needs it reports would-block and the buffered bytes from that
\* delimiter onward are unchanged; and a call made after a would-block, once
\* the whole frame is buffered behind the first start delimiter, returns it.
C21_PartialFrameWouldBlockThenFrame ==
    [][RecvFrameCall =>
            LET d    == DelimAt(rxq.items)
                rest == Slice(rxq.items, d + 1, Len(rxq.items))
                dec  == FrameDecode(rest)
            IN  /\ (rest # <<>> /\ dec.tag = "DecodeBufferTooSmall") =>
                        (rxLast' = "WouldBlock" /\ rxq'.items = rest)
                /\ (rxLast = "WouldBlock" /\ dec.tag = "Ok") =>
                        (rxLast' = "Frame" /\ frames' = Append(frames, dec.data))]_vars

\* C22: when recv_frame returns a frame, it has taken off the queue exactly the
\* bytes in front of the first start delimiter and the payload length + 4 bytes
\* of the frame; the bytes buffered behind the frame's end delimiter stay, in
\* their order.
C22_FrameReturnDrainsGarbageAndFrame ==
    [][(RecvFrameCall /\ rxLast' = "Frame") =>
            LET d == DelimAt(rxq.items)
                n == Len(frames'[Len(frames')])
            IN  /\ d + n + 4 <= Len(rxq.items)
                /\ rxq.items[d + 1] = DELIMITER
                /\ rxq.items[d + n + 4] = END_DELIM
                /\ rxq'.items = Slice(rxq.items, d + n + 5, Len(rxq.items))]_vars

\* C22 witness: recv_frame returned a frame of two payload bytes that had
\* garbage in front of it, and bytes buffered behind it are still queued.
C22_Witness ==
    /\ api = "recv_frame" /\ rxLast = "Frame"
    /\ scn.g1 # <<>> /\ frames = <<scn.p1>> /\ Len(scn.p1) = 2
    /\ ~earlyPoll /\ rxq.items # <<>>

\* the first check of Frame::decode that fails on data, in the order
\* DecodeBufferTooSmall (fewer than 4 bytes), MissingStartDelim,
\* DecodeBufferTooSmall (fewer than length + 4 bytes), EarlyEndDelim (the byte at
\* offset length + 3 is not the end delimiter and one occurs at an earlier
\* offset), CrcMismatch, MissingEndDelim; offset k is index k + 1
C23First(data) ==
    IF Len(data) < 4 THEN "DecodeBufferTooSmall"
    ELSE IF data[1] # DELIMITER THEN "MissingStartDelim"
    ELSE IF Len(data) < data[2] + 4 THEN "DecodeBufferTooSmall"
    ELSE LET length == data[2]
             badEnd == data[length + 4] # END_DELIM
         IN  IF badEnd /\ \E k \in 0..(length + 2) : data[k + 1] = END_DELIM
             THEN "EarlyEndDelim"
             ELSE IF data[length + 3] # crc8(Slice(data, 2, length + 2))
             THEN "CrcMismatch"
             ELSE IF badEnd THEN "MissingEndDelim"
             ELSE "Ok"

\* C23: Frame::decode returns the first failing check in that order; a frame
\* whose only defect is a changed end delimiter, with no end delimiter byte
\* before it and a correct checksum, yields MissingEndDelim.
C23_DecodeCheckPrecedence ==
    cop = "FrameDecodeAny" => cres.tag = C23First(carg[1])

\* C23 witness: a frame of two payload bytes whose end delimiter alone was
\* changed, holding no other end delimiter byte, was decoded as MissingEndDelim.
C23_Witness ==
    /\ cop = "FrameDecodeAny" /\ Len(cdata) = 2
    /\ LET f == ValidFrame(cdata) IN
        /\ Len(carg[1]) = Len(f)
        /\ \A k \in 1..Len(f) : (carg[1][k] # f[k]) <=> (k = Len(f))
        /\ \A k \in 1..Len(f) : carg[1][k] # END_DELIM
    /\ cres.tag = "MissingEndDelim"

\* C24: Frame::decode returns a frame only if byte 0 of the input is the start
\* delimiter, the byte at offset length + 3 the end delimiter and the byte at
\* offset length + 2 is crc8(length byte ++ payload); the frame returned has
\* size = data.len() and crc = crc8(size ++ data).
C24_DecodedFrameIsWellFormed ==
    (cop = "FrameDecodeAny" /\ cres.tag = "Ok") =>
        LET input  == carg[1]
            length == input[2]
        IN  /\ Len(input) >= length + 4
            /\ input[1] = DELIMITER
            /\ input[length + 4] = END_DELIM
            /\ input[length + 3] = crc8(Slice(input, 2, length + 2))
            /\ cres.size = Len(cres.data)
            /\ cres.data = Slice(input, 3, length + 2)
            /\ carg[2] = crc8(<<cres.size>> \o cres.data)

\* C24 witness: overwritten bytes turned the encoding of a payload into a
\* shorter valid frame followed by other bytes, and decode returned that frame.
C24_Witness ==
    /\ cop = "FrameDecodeAny" /\ cres.tag = "Ok"
    /\ cres.size < Len(cdata)
    /\ Len(carg[1]) > cres.size + 4

\* C25: for every payload and every destination size, sizes 0 and 1 included,
\* encode returns EncodeBufferTooSmall with expected = length + 4 when the
\* destination is smaller than length + 4 (length = min(payload.len(), 255)),
\* and otherwise returns length + 4 as the number of bytes written.
C25_EncodeChecksDestinationSize ==
    cop = "FrameEncodeInto" =>
        LET length == Min(Len(cdata), 255) IN
        /\ cres.size = length + 4
        /\ cres.tag = IF carg[1] < length + 4 THEN "EncodeBufferTooSmall" ELSE "Ok"

\* C26: with last = payload.len() / 252, the packet send writes for the chunk
\* at index last is tagged DataLast, a chunk at index 0 other than that one
\* Data, every other chunk DataContinue; a payload of exactly 252 bytes is
\* sent as one Data packet.
C26_SendKindsByIndex ==
    /\ \A j \in 1..Len(txlog) :
            \* the kind byte opens the packet, behind the frame's two header bytes
            txlog[j][3] =
                IF j - 1 = Len(payload) \div 252 THEN KDataLast
                ELSE IF j - 1 = 0 THEN KData
                ELSE KDataContinue
    /\ (Len(payload) = 252 /\ pc = "ok") => TxKinds = <<KData>>

\* C26 witness: send of a payload of exactly 252 bytes has returned Ok after
\* writing one packet.
C26_Witness == Len(payload) = 252 /\ pc = "ok" /\ Len(txlog) = 1

\* C30: for every non-empty payload, the last packet a successful send wrote is
\* tagged DataLast and no other packet of that send is.
C30_SuccessfulSendEndsWithDataLast ==
    (payload # <<>> /\ pc = "ok") =>
        /\ txlog # <<>>
        /\ \A j \in 1..Len(txlog) : (TxKinds[j] = KDataLast) <=> (j = Len(txlog))

\* C27: the bytes consumed so far followed by the queue content are the bytes
\* the raw source delivered, in arrival order; peek returns the oldest queued
\* byte and leaves it in the queue; drain(n) removes exactly the n oldest.
C27_QueueOrderIsArrivalOrder ==
    /\ eaten \o rxq.items = pulled
    /\ (bufOp = "peek" /\ rxq.items # <<>>) =>
            (bufOut = <<rxq.items[1]>> /\ bufOut = <<pulled[Len(eaten) + 1]>>)
    /\ (bufOp = "peek" /\ rxq.items = <<>>) => bufOut = <<-1>>
    /\ bufOp = "drain" =>
            bufOut = Slice(pulled, Len(eaten) - Len(bufOut) + 1, Len(eaten))

\* C27 witness: after reads and drains, on a ring that has wrapped, peek
\* returned the oldest byte still queued.
C27_Witness ==
    /\ bufOp = "peek" /\ Len(eaten) >= 3 /\ Len(rxq.items) >= 3
    /\ rxq.head + Len(rxq.items) > rxq.cap
    /\ bufOut = <<rxq.items[1]>>

\* C28: in every reachable state of the queue slice() is the whole queue
\* content in arrival order.
C28_SliceIsWholeQueue ==
    /\ RxSlice(rxq) = rxq.items
    /\ bufOp = "slice" => bufOut = rxq.items

\* C29: once all bytes of a valid frame are in the queue with its start
\* delimiter at the front, the next recv_frame / FrameRx::recv call returns
\* that frame, whatever appends and drains the queue went through before.
C29_BufferedFrameIsReturned ==
    [][((RecvFrameCall \/ FrameRxRecvCall)
            /\ rxq.items # <<>> /\ rxq.items[1] = DELIMITER
            /\ FrameDecode(rxq.items).tag = "Ok") =>
                (rxLast' = "Frame"
                    /\ frames' = Append(frames, FrameDecode(rxq.items).data))]_vars

\* the data bytes and the header length byte of the packet in the j-th frame
\* send wrote: the frame is START, length, then the packet (kind, id, length,
\* data), then the checksum
C31Data(j) == Slice(txlog[j], 6, Len(txlog[j]) - 1)
C31HeaderLength(j) == txlog[j][5]

RECURSIVE C31Concat(_)
C31Concat(j) == IF j = 0 THEN <<>> ELSE C31Concat(j - 1) \o C31Data(j)

\* C31: the packets send has written partition the payload: each carries 1 to
\* 252 data bytes, each but the last exactly 252, each header length is its
\* data length, and their data in emission order are the payload's bytes, all
\* of them once send has returned Ok.
C31_PacketsPartitionPayload ==
    /\ \A j \in 1..Len(txlog) :
        /\ Len(C31Data(j)) \in 1..252
        /\ j < Len(txlog) => Len(C31Data(j)) = 252
        /\ C31HeaderLength(j) = Len(C31Data(j))
    /\ LET sent == C31Concat(Len(txlog)) IN
        /\ Len(sent) <= Len(payload)
        /\ sent = Slice(payload, 1, Len(sent))
        /\ pc = "ok" => sent = payload

\* C31 witness: send of 2 * 252 + 1 bytes has returned Ok after three packets.
C31_Witness == pc = "ok" /\ Len(payload) = 505 /\ Len(txlog) = 3

\* C32: send with an empty payload writes no frame to the transport, reads
\* nothing from the peer and returns success.
C32_EmptyPayloadSendsNothing ==
    payload = <<>> =>
        /\ txlog = <<>> /\ wire = <<>>
        /\ rcvd = <<>> /\ rxw = <<>> /\ ~rdErr /\ ~wrErr
        /\ pc \in {"loop", "ok"} /\ sres = "none"

\* C32 witness: send of the empty payload has returned Ok.
C32_Witness == payload = <<>> /\ pc = "ok" /\ txlog = <<>> /\ rcvd = <<>>

\* C33: Frame::decode of slip.rs returns a result for every input, the empty
\* one and one that ends right after the declared payload included: MissingStart,
\* DecodeBufferTooSmall, CrcMismatch or a frame; it never reads past the end of
\* its input.
C33_SlipDecodeIsTotal ==
    cop = "SlipDecodeAny" =>
        cres.tag \in {"MissingStart", "DecodeBufferTooSmall", "CrcMismatch", "Ok"}

=============================================================================
